---- MODULE Spec2Model ----
(***************************************************************************)
(* Model of src/src/lib.rs: process_image (py_process_image followed by    *)
(* process_image_inner) driving the sr_vulkan engine module.               *)
(*                                                                         *)
(* Strings are sequences of one-character strings, so that to_lowercase,   *)
(* replace, contains and starts_with are computed as the code computes     *)
(* them.  The engine is the environment: every return code, poll reply and *)
(* Python exception is a nondeterministic choice.                          *)
(***************************************************************************)
EXTENDS Integers, Sequences, FiniteSets, TLC

VARIABLES
    pc,             \* position in py_process_image / process_image_inner
    model,          \* argument `model` (raw user string)
    cpu,            \* argument `cpu`
    gpu_id,         \* argument `gpu_id`
    model_path,     \* argument `model_path` (Option)
    env_model_path, \* environment variable SR_MODEL_PATH (Option)
    output,         \* argument `output` (destination path)
    table,          \* attributes of module sr_vulkan.sr_vulkan, in dir() order
    use_cpu,        \* local `use_cpu`
    cpu_num,        \* local `cpu_num`
    model_id,       \* local `model_id: Option<i32>`
    scanned,        \* history: the loop over models.dir() was entered
    wait_count,     \* local `wait_count`
    result,         \* the tuple a ready poll returned
    fs,             \* file system: path -> file
    dest0,          \* history: the destination file before the run
    calls,          \* history: engine primitives called, in order (load excepted)
    load_calls,     \* history: number of load(0) calls
    replies,        \* history: kinds of not-ready poll replies seen
    outcome,        \* value returned by process_image
    lpc,            \* position in py_list_models
    li,             \* py_list_models: index of the next attribute of sr.dir()
    categories,     \* py_list_models: local `categories`
    lcall,          \* number of the list_models call under way
    lprev,          \* history: what the previous list_models call returned
    listing,        \* value returned by list_models
    npc,            \* normalization: number of times it was applied
    nx,             \* normalization: the input string
    ny              \* normalization: the string after npc applications

vars == <<pc, model, cpu, gpu_id, model_path, env_model_path, output, table,
          use_cpu, cpu_num, model_id, scanned, wait_count, result, fs,
          dest0, calls, load_calls, replies, outcome,
          lpc, li, categories, lcall, lprev, listing, npc, nx, ny>>

\* state of list_models and of the normalization on its own
auxVars == <<lpc, li, categories, lcall, lprev, listing, npc, nx, ny>>

\* state of process_image
procVars == <<pc, model, cpu, gpu_id, model_path, env_model_path, output,
              use_cpu, cpu_num, model_id, scanned, wait_count, result, fs,
              dest0, calls, load_calls, replies, outcome>>

----------------------------------------------------------------------------
(* Bounds of the environment. *)

\* gpu_id argument ranges over 0..MaxGpu
MaxGpu == 1
\* getCpuCoreNum returns 1..MaxCores
MaxCores == 1
\* result_id of a ready poll ranges over 0..MaxResultId
MaxResultId == 0
\* strings given to the normalization alone have at most MaxNormLen characters
MaxNormLen == 3

----------------------------------------------------------------------------
(* Strings. *)

UpperAlpha == <<"A","B","C","D","E","F","G","H","I","J","K","L","M",
                "N","O","P","Q","R","S","T","U","V","W","X","Y","Z">>

LowerAlpha == <<"a","b","c","d","e","f","g","h","i","j","k","l","m",
                "n","o","p","q","r","s","t","u","v","w","x","y","z">>

\* upper-case letter -> lower-case letter
LowerOf ==
    [c \in {UpperAlpha[i] : i \in 1..Len(UpperAlpha)} |->
        LowerAlpha[CHOOSE i \in 1..Len(UpperAlpha) : UpperAlpha[i] = c]]

\* lower-case letter -> upper-case letter
UpperOf ==
    [c \in {LowerAlpha[i] : i \in 1..Len(LowerAlpha)} |->
        UpperAlpha[CHOOSE i \in 1..Len(LowerAlpha) : LowerAlpha[i] = c]]

lower_char(c) == IF c \in DOMAIN LowerOf THEN LowerOf[c] ELSE c

upper_char(c) == IF c \in DOMAIN UpperOf THEN UpperOf[c] ELSE c

to_lowercase(s) == [i \in 1..Len(s) |-> lower_char(s[i])]

to_uppercase(s) == [i \in 1..Len(s) |-> upper_char(s[i])]

starts_with(s, pat) ==
    /\ Len(pat) <= Len(s)
    /\ SubSeq(s, 1, Len(pat)) = pat

contains(s, pat) ==
    \E k \in 0..(Len(s) - Len(pat)) : SubSeq(s, k + 1, k + Len(pat)) = pat

\* str::replace: every non-overlapping occurrence, left to right
RECURSIVE replace(_, _, _)
replace(s, from, to) ==
    IF Len(s) < Len(from) \/ Len(s) = 0 THEN s
    ELSE IF starts_with(s, from)
         THEN to \o replace(SubSeq(s, Len(from) + 1, Len(s)), from, to)
         ELSE <<Head(s)>> \o replace(Tail(s), from, to)

\* Display of an i32 (format!("{}", n))
RECURSIVE digits(_)
digits(n) ==
    LET d == <<"0","1","2","3","4","5","6","7","8","9">>
    IN  IF n < 10 THEN <<d[n + 1]>> ELSE digits(n \div 10) \o <<d[(n % 10) + 1]>>

display_i32(n) == IF n < 0 THEN <<"-">> \o digits(0 - n) ELSE digits(n)

MODEL_ == <<"M","O","D","E","L","_">>

MODEL_PREFIXES ==
    << <<"R","E","A","L","C","U","G","A","N">>,
       <<"R","E","A","L","E","S","R","G","A","N">>,
       <<"R","E","A","L","S","R">>,
       <<"W","A","I","F","U","2","X">> >>

RECURSIVE trim_start_matches(_, _)
trim_start_matches(s, c) ==
    IF Len(s) > 0 /\ Head(s) = c THEN trim_start_matches(Tail(s), c) ELSE s


----------------------------------------------------------------------------
(* The environment: engine symbol tables, arguments, files. *)

None == [some |-> FALSE, v |-> 0]

Some(x) == [some |-> TRUE, v |-> x]

\* A module attribute: its name and its value.  kind "int" is a Python int
\* that fits i32, "big" a Python int that does not, "str" any other object.
Sym(name, kind, v) == [name |-> name, kind |-> kind, v |-> v]

N_REALSR_X == MODEL_ \o <<"R","E","A","L","S","R","_","X">>

N_WAIFU2X_A == MODEL_ \o <<"W","A","I","F","U","2","X","_","A">>

N_WAIFU2X_AB == MODEL_ \o <<"W","A","I","F","U","2","X","_","A","B">>

N_A_MODEL_B == MODEL_ \o <<"A","_">> \o MODEL_ \o <<"B">>

N_add == <<"a","d","d">>

\* dir() of the engine module (sorted by name, as dir() returns it)
Tables ==
    { << Sym(N_REALSR_X, "int", 1), Sym(N_WAIFU2X_A, "int", 2),
         Sym(N_WAIFU2X_AB, "int", 3), Sym(N_add, "str", 0) >>,
      << Sym(N_REALSR_X, "int", 1), Sym(N_WAIFU2X_A, "str", 0),
         Sym(N_WAIFU2X_AB, "int", 3), Sym(N_add, "str", 0) >>,
      << Sym(N_A_MODEL_B, "int", 4), Sym(N_WAIFU2X_A, "big", 0),
         Sym(N_add, "str", 0) >> }

\* values of the `model` argument
Models ==
    { <<"w","a","i","f","u","2","x","-","a">>,
      <<"W","a","i","f","u","2","x"," ","A","B">>,
      <<"w","a","i","f","u","2","x","_","a">>,
      <<"2","x">>,
      <<"r","e","a","l","s","r">>,
      <<"x","-","a">>,
      <<"a","_","b">>,
      <<"w","a","i","f","u","2","x","_","a","_","v">>,
      <<"z","z","-","q">> }

\* values of the `model` argument resolved by the exact step, by the fuzzy
\* step and by neither
CoreModels ==
    { <<"w","a","i","f","u","2","x","-","a">>,
      <<"2","x">>,
      <<"z","z","-","q">> }

InputPath == <<"i","n">>

Formats == { <<"p","n","g">> }

\* values of the `output` argument; the second is also a name the engine's
\* (result_id, format) can produce
Outputs == { <<"o","u","t">>, <<"0",".","p","n","g">> }

\* format!("{}.{}", result_id, out_format)
output_file_name(result_id, out_format) ==
    display_i32(result_id) \o <<".">> \o out_format

Paths ==
    {InputPath} \cup Outputs
    \cup { output_file_name(r, f) : r \in 0..MaxResultId, f \in Formats }

Absent == [exists |-> FALSE, data |-> <<>>]

File(d) == [exists |-> TRUE, data |-> d]

InputBytes == <<1>>

OldBytes == <<5>>

\* output_data of a ready poll
Payload == <<7, 8>>

\* first element of the tuple of a ready poll: a bytes object, possibly of
\* length 0 (None is PollNullPayload)
Payloads == {<<>>, Payload}

InitCodes == {-1, 0}

InitSetCodes == {-1, 0}

AddCodes == {-1, 0, 1}

\* texts getLastError returns
ErrorTexts == { <<"e">>, <<"f","g">> }

NoPath == [some |-> FALSE, v |-> ""]

\* weights paths
PathArgs == {NoPath, Some("arg_dir")}

EnvVals == {NoPath, Some("env_dir")}

\* elapsed tick of a ready poll, in tenths (12345 is 1234.5)
Ticks == {12345}

NoOutcome == [kind |-> "none", success |-> FALSE, msg |-> "", detail |-> <<>>]

\* Ok((success, message)); detail is the text appended to the fixed message
Returned(success, msg, detail) ==
    [kind |-> "ok", success |-> success, msg |-> msg, detail |-> detail]

\* Err(e), propagated by `?`
Failed(what) ==
    [kind |-> "err", success |-> FALSE, msg |-> what, detail |-> <<>>]

NoResult == [data |-> <<>>, format |-> <<>>, id |-> 0, tick |-> 0]

\* the poll loop gives up one attempt early
max_wait_short == 60 - 1

max_wait == 60

\* list_models is not running and nothing is being normalized
AuxIdle ==
    /\ lpc = "idle"
    /\ li = 0
    /\ categories = <<>>
    /\ lcall = 0
    /\ lprev = NoOutcome
    /\ listing = NoOutcome
    /\ npc = 0
    /\ nx = <<>>
    /\ ny = <<>>

\* the state at the entry of py_process_image, for given sets of arguments
InitWith(models, path_args, env_vals, outputs, olds) ==
    /\ pc = "import"
    /\ model \in models
    /\ cpu \in BOOLEAN
    /\ gpu_id \in 0..MaxGpu
    /\ model_path \in path_args
    /\ env_model_path \in env_vals
    /\ output \in outputs
    /\ table \in Tables
    /\ use_cpu = FALSE
    /\ cpu_num = 0
    /\ model_id = None
    /\ scanned = FALSE
    /\ wait_count = 0
    /\ result = NoResult
    /\ \E inp \in {Absent, File(InputBytes)}, old \in olds :
          /\ fs = [p \in Paths |->
                     IF p = output THEN old
                     ELSE IF p = InputPath THEN inp ELSE Absent]
          /\ dest0 = old
    /\ calls = <<>>
    /\ load_calls = 0
    /\ replies = {}
    /\ outcome = NoOutcome
    /\ AuxIdle

\* every weights path, with one input per way of resolving (exact, fuzzy,
\* unknown) and one destination
Init == InitWith(CoreModels, PathArgs, EnvVals, {<<"o","u","t">>}, {Absent})

\* every destination and previous destination content
InitFiles ==
    InitWith(CoreModels, {NoPath}, {NoPath}, Outputs, {Absent, File(OldBytes)})

\* every input string, with one destination
InitResolve ==
    InitWith(Models, PathArgs, {NoPath}, {<<"o","u","t">>}, {Absent})

----------------------------------------------------------------------------
(* Engine calls. *)

CallRec(fn, args, ret, ok) == [fn |-> fn, args |-> args, ret |-> ret, ok |-> ok]

\* the call returned `ret`
Called(fn, args, ret) == calls' = Append(calls, CallRec(fn, args, ret, TRUE))

\* the call raised a Python exception, which `?` propagates
Raised(fn, args) ==
    /\ calls' = Append(calls, CallRec(fn, args, 0, FALSE))
    /\ pc' = "done"
    /\ outcome' = Failed(fn)

----------------------------------------------------------------------------
(* py_process_image *)

\* let sr = py.import("sr_vulkan.sr_vulkan")?
Import ==
    /\ pc = "import"
    /\ \/ /\ pc' = "setModelPath"
          /\ UNCHANGED outcome
       \/ /\ pc' = "done"
          /\ outcome' = Failed("import")
    /\ UNCHANGED <<model, cpu, gpu_id, model_path, env_model_path, output,
                   table, use_cpu, cpu_num, model_id, scanned, wait_count,
                   result, fs, dest0, calls, load_calls>>
    /\ UNCHANGED replies
    /\ UNCHANGED auxVars

\* the environment variable wins over the argument
effective_model_path_env_first ==
    IF env_model_path.some THEN env_model_path ELSE model_path

effective_model_path == IF model_path.some THEN model_path ELSE env_model_path

SetModelPath ==
    /\ pc = "setModelPath"
    /\ IF effective_model_path.some
       THEN \/ /\ Called("setModelPath", <<effective_model_path.v>>, 0)
               /\ pc' = "init"
               /\ UNCHANGED outcome
            \/ Raised("setModelPath", <<effective_model_path.v>>)
       ELSE /\ pc' = "init"
            /\ UNCHANGED <<calls, outcome>>
    /\ UNCHANGED <<model, cpu, gpu_id, model_path, env_model_path, output,
                   table, use_cpu, cpu_num, model_id, scanned, wait_count,
                   result, fs, dest0, load_calls>>
    /\ UNCHANGED replies
    /\ UNCHANGED auxVars

\* a negative init code does not force CPU mode
CallInit_no_fallback ==
    /\ pc = "init"
    /\ \/ \E init_result \in InitCodes :
             /\ Called("init", <<>>, init_result)
             /\ use_cpu' = cpu
             /\ pc' = (IF use_cpu' THEN "getCpuCoreNum" ELSE "initSet")
             /\ UNCHANGED outcome
       \/ /\ Raised("init", <<>>)
          /\ UNCHANGED use_cpu
    /\ UNCHANGED <<model, cpu, gpu_id, model_path, env_model_path, output,
                   table, cpu_num, model_id, scanned, wait_count,
                   result, fs, dest0, load_calls>>
    /\ UNCHANGED replies
    /\ UNCHANGED auxVars

CallInit ==
    /\ pc = "init"
    /\ \/ \E init_result \in InitCodes :
             /\ Called("init", <<>>, init_result)
             /\ use_cpu' = (IF init_result < 0 THEN TRUE ELSE cpu)
             /\ pc' = (IF use_cpu' THEN "getCpuCoreNum" ELSE "initSet")
             /\ UNCHANGED outcome
       \/ /\ Raised("init", <<>>)
          /\ UNCHANGED use_cpu
    /\ UNCHANGED <<model, cpu, gpu_id, model_path, env_model_path, output,
                   table, cpu_num, model_id, scanned, wait_count,
                   result, fs, dest0, load_calls>>
    /\ UNCHANGED replies
    /\ UNCHANGED auxVars

CallGetCpuCoreNum ==
    /\ pc = "getCpuCoreNum"
    /\ \/ \E n \in 1..MaxCores :
             /\ Called("getCpuCoreNum", <<>>, n)
             /\ cpu_num' = n
             /\ pc' = "initSet"
             /\ UNCHANGED outcome
       \/ /\ Raised("getCpuCoreNum", <<>>)
          /\ UNCHANGED cpu_num
    /\ UNCHANGED <<model, cpu, gpu_id, model_path, env_model_path, output,
                   table, use_cpu, model_id, scanned, wait_count,
                   result, fs, dest0, load_calls>>
    /\ UNCHANGED replies
    /\ UNCHANGED auxVars

\* a negative initSet code is not treated as fatal
CallInitSet_unchecked ==
    /\ pc = "initSet"
    /\ \/ \E init_set_result \in InitSetCodes :
             /\ Called("initSet", IF use_cpu THEN <<-1, cpu_num>> ELSE <<gpu_id>>,
                       init_set_result)
             /\ pc' = "exact"
             /\ UNCHANGED outcome
       \/ Raised("initSet", IF use_cpu THEN <<-1, cpu_num>> ELSE <<gpu_id>>)
    /\ UNCHANGED <<model, cpu, gpu_id, model_path, env_model_path, output,
                   table, use_cpu, cpu_num, model_id, scanned, wait_count,
                   result, fs, dest0, load_calls>>
    /\ UNCHANGED replies
    /\ UNCHANGED auxVars

init_set_args == IF use_cpu THEN <<-1, cpu_num>> ELSE <<gpu_id>>

CallInitSet ==
    /\ pc = "initSet"
    /\ \/ \E init_set_result \in InitSetCodes :
             /\ Called("initSet", init_set_args, init_set_result)
             /\ IF init_set_result < 0
                THEN /\ pc' = "done"
                     /\ outcome' = Returned(FALSE, "Initialization failed", <<>>)
                ELSE /\ pc' = "exact"
                     /\ UNCHANGED outcome
       \/ Raised("initSet", init_set_args)
    /\ UNCHANGED <<model, cpu, gpu_id, model_path, env_model_path, output,
                   table, use_cpu, cpu_num, model_id, scanned, wait_count,
                   result, fs, dest0, load_calls>>
    /\ UNCHANGED replies
    /\ UNCHANGED auxVars


\* the second replacement writes a hyphen
normalize_typo(m) ==
    replace(replace(to_lowercase(m), <<"-">>, <<"_">>), <<" ">>, <<"-">>)

normalize(m) ==
    replace(replace(to_lowercase(m), <<"-">>, <<"_">>), <<" ">>, <<"_">>)

normalized_model(m) == <<"m","o","d","e","l","_">> \o normalize(m)

\* models.getattr(name) is Ok
has_attr(tbl, name) == \E i \in 1..Len(tbl) : tbl[i].name = name

get_attr(tbl, name) == tbl[CHOOSE i \in 1..Len(tbl) : tbl[i].name = name]

\* id.extract::<i32>() as an Option
extract_i32(sym) == IF sym.kind = "int" THEN Some(sym.v) ELSE None

\* the exact step never finds the symbol
exact_lookup_never(tbl, m) == None

exact_lookup(tbl, m) ==
    LET attr == to_uppercase(normalized_model(m))
    IN  IF has_attr(tbl, attr) THEN extract_i32(get_attr(tbl, attr)) ELSE None

ExactLookup ==
    /\ pc = "exact"
    /\ model_id' = exact_lookup(table, model)
    /\ pc' = (IF model_id'.some THEN "resolve" ELSE "fuzzy")
    /\ UNCHANGED <<model, cpu, gpu_id, model_path, env_model_path, output,
                   table, use_cpu, cpu_num, scanned, wait_count,
                   result, fs, dest0, calls, load_calls, outcome>>
    /\ UNCHANGED replies
    /\ UNCHANGED auxVars

\* attr_name.replace("MODEL_", "").to_lowercase()
model_name(attr_name) == to_lowercase(replace(attr_name, MODEL_, <<>>))

fuzzy_match(m, name) ==
    \/ m = name
    \/ contains(m, name)
    \/ contains(name, m)

\* the loop does not break: the last matching entry wins
RECURSIVE fuzzy_scan_last(_, _, _)
fuzzy_scan_last(tbl, m, i) ==
    IF i > Len(tbl) THEN None
    ELSE LET rest == fuzzy_scan_last(tbl, m, i + 1)
         IN  IF rest.some THEN rest
             ELSE IF /\ starts_with(tbl[i].name, MODEL_)
                     /\ extract_i32(tbl[i]).some
                     /\ fuzzy_match(m, model_name(tbl[i].name))
                  THEN extract_i32(tbl[i])
                  ELSE None

\* the loop over models.dir(), from entry i on
RECURSIVE fuzzy_scan(_, _, _)
fuzzy_scan(tbl, m, i) ==
    IF i > Len(tbl) THEN None
    ELSE IF /\ starts_with(tbl[i].name, MODEL_)
            /\ extract_i32(tbl[i]).some
            /\ fuzzy_match(m, model_name(tbl[i].name))
         THEN extract_i32(tbl[i])
         ELSE fuzzy_scan(tbl, m, i + 1)

FuzzyScan ==
    /\ pc = "fuzzy"
    /\ \/ /\ scanned' = TRUE
          /\ model_id' = fuzzy_scan(table, model, 1)
          /\ pc' = "resolve"
          /\ UNCHANGED outcome
       \/ /\ pc' = "done"
          /\ outcome' = Failed("dir")
          /\ UNCHANGED <<scanned, model_id>>
    /\ UNCHANGED <<model, cpu, gpu_id, model_path, env_model_path, output,
                   table, use_cpu, cpu_num, wait_count,
                   result, fs, dest0, calls, load_calls>>
    /\ UNCHANGED replies
    /\ UNCHANGED auxVars

\* the message carries the normalized input
Resolve_normalized ==
    /\ pc = "resolve"
    /\ IF model_id.some
       THEN /\ pc' = "checkInput"
            /\ UNCHANGED outcome
       ELSE /\ pc' = "done"
            /\ outcome' = Returned(FALSE, "Unknown model: ", normalize(model))
    /\ UNCHANGED <<model, cpu, gpu_id, model_path, env_model_path, output,
                   table, use_cpu, cpu_num, model_id, scanned, wait_count,
                   result, fs, dest0, calls, load_calls>>
    /\ UNCHANGED replies
    /\ UNCHANGED auxVars

Resolve ==
    /\ pc = "resolve"
    /\ IF model_id.some
       THEN /\ pc' = "checkInput"
            /\ UNCHANGED outcome
       ELSE /\ pc' = "done"
            /\ outcome' = Returned(FALSE, "Unknown model: ", model)
    /\ UNCHANGED <<model, cpu, gpu_id, model_path, env_model_path, output,
                   table, use_cpu, cpu_num, model_id, scanned, wait_count,
                   result, fs, dest0, calls, load_calls>>
    /\ UNCHANGED replies
    /\ UNCHANGED auxVars

----------------------------------------------------------------------------
(* process_image_inner *)

CheckInput ==
    /\ pc = "checkInput"
    /\ IF fs[InputPath].exists
       THEN /\ pc' = "read"
            /\ UNCHANGED outcome
       ELSE /\ pc' = "done"
            /\ outcome' = Returned(FALSE, "Input file not found: ", InputPath)
    /\ UNCHANGED <<model, cpu, gpu_id, model_path, env_model_path, output,
                   table, use_cpu, cpu_num, model_id, scanned, wait_count,
                   result, fs, dest0, calls, load_calls>>
    /\ UNCHANGED replies
    /\ UNCHANGED auxVars

\* let data = std::fs::read(input)?
ReadInput ==
    /\ pc = "read"
    /\ \/ /\ pc' = "add"
          /\ UNCHANGED outcome
       \/ /\ pc' = "done"
          /\ outcome' = Failed("read")
    /\ UNCHANGED <<model, cpu, gpu_id, model_path, env_model_path, output,
                   table, use_cpu, cpu_num, model_id, scanned, wait_count,
                   result, fs, dest0, calls, load_calls>>
    /\ UNCHANGED replies
    /\ UNCHANGED auxVars

\* only a negative add code is taken as a submission failure
CallAdd_strict ==
    /\ pc = "add"
    /\ \/ \E add_result \in AddCodes :
             /\ Called("add", <<model_id.v>>, add_result)
             /\ pc' = (IF add_result < 0 THEN "getLastError" ELSE "poll")
             /\ UNCHANGED outcome
       \/ Raised("add", <<model_id.v>>)
    /\ wait_count' = 0
    /\ UNCHANGED <<model, cpu, gpu_id, model_path, env_model_path, output,
                   table, use_cpu, cpu_num, model_id, scanned,
                   result, fs, dest0, load_calls>>
    /\ UNCHANGED replies
    /\ UNCHANGED auxVars

CallAdd ==
    /\ pc = "add"
    /\ \/ \E add_result \in AddCodes :
             /\ Called("add", <<model_id.v>>, add_result)
             /\ pc' = (IF add_result <= 0 THEN "getLastError" ELSE "poll")
             /\ UNCHANGED outcome
       \/ Raised("add", <<model_id.v>>)
    /\ wait_count' = 0
    /\ UNCHANGED <<model, cpu, gpu_id, model_path, env_model_path, output,
                   table, use_cpu, cpu_num, model_id, scanned,
                   result, fs, dest0, load_calls>>
    /\ UNCHANGED replies
    /\ UNCHANGED auxVars

\* a failed submission is tried again
CallGetLastError_retry ==
    /\ pc = "getLastError"
    /\ \/ \E error \in ErrorTexts :
             /\ Called("getLastError", <<>>, error)
             /\ pc' = "add"
             /\ UNCHANGED outcome
       \/ Raised("getLastError", <<>>)
    /\ UNCHANGED <<model, cpu, gpu_id, model_path, env_model_path, output,
                   table, use_cpu, cpu_num, model_id, scanned, wait_count,
                   result, fs, dest0, load_calls>>
    /\ UNCHANGED replies
    /\ UNCHANGED auxVars

CallGetLastError ==
    /\ pc = "getLastError"
    /\ \/ \E error \in ErrorTexts :
             /\ Called("getLastError", <<>>, error)
             /\ pc' = "done"
             /\ outcome' = Returned(FALSE, "Failed to add task: ", error)
       \/ Raised("getLastError", <<>>)
    /\ UNCHANGED <<model, cpu, gpu_id, model_path, env_model_path, output,
                   table, use_cpu, cpu_num, model_id, scanned, wait_count,
                   result, fs, dest0, load_calls>>
    /\ UNCHANGED replies
    /\ UNCHANGED auxVars

\* load(0) returned None
PollNone ==
    /\ pc = "poll"
    /\ wait_count < max_wait
    /\ load_calls' = load_calls + 1
    /\ wait_count' = wait_count + 1
    /\ UNCHANGED <<pc, model, cpu, gpu_id, model_path, env_model_path, output,
                   table, use_cpu, cpu_num, model_id, scanned,
                   result, fs, dest0, calls, outcome>>
    /\ replies' = replies \cup {"none"}
    /\ UNCHANGED auxVars

\* load(0) returned a tuple whose first element is None
\* a null payload is retried without counting the attempt
PollNullPayload_uncounted ==
    /\ pc = "poll"
    /\ wait_count < max_wait
    /\ load_calls' = load_calls + 1
    /\ UNCHANGED <<pc, model, cpu, gpu_id, model_path, env_model_path, output,
                   table, use_cpu, cpu_num, model_id, scanned, wait_count,
                   result, fs, dest0, calls, outcome>>
    /\ replies' = replies \cup {"null"}
    /\ UNCHANGED auxVars

PollNullPayload ==
    /\ pc = "poll"
    /\ wait_count < max_wait
    /\ load_calls' = load_calls + 1
    /\ wait_count' = wait_count + 1
    /\ UNCHANGED <<pc, model, cpu, gpu_id, model_path, env_model_path, output,
                   table, use_cpu, cpu_num, model_id, scanned,
                   result, fs, dest0, calls, outcome>>
    /\ replies' = replies \cup {"null"}
    /\ UNCHANGED auxVars

\* load(0) returned (bytes, format, result_id, tick)
PollReady ==
    /\ pc = "poll"
    /\ wait_count < max_wait
    /\ load_calls' = load_calls + 1
    /\ \E d \in Payloads, f \in Formats, r \in 0..MaxResultId, t \in Ticks :
          result' = [data |-> d, format |-> f, id |-> r, tick |-> t]
    /\ pc' = "write"
    /\ UNCHANGED <<model, cpu, gpu_id, model_path, env_model_path, output,
                   table, use_cpu, cpu_num, model_id, scanned, wait_count,
                   fs, dest0, calls, outcome>>
    /\ UNCHANGED replies
    /\ UNCHANGED auxVars

\* load(0) raised, or its reply does not extract
PollFail ==
    /\ pc = "poll"
    /\ wait_count < max_wait
    /\ load_calls' = load_calls + 1
    /\ pc' = "done"
    /\ outcome' = Failed("load")
    /\ UNCHANGED <<model, cpu, gpu_id, model_path, env_model_path, output,
                   table, use_cpu, cpu_num, model_id, scanned, wait_count,
                   result, fs, dest0, calls>>
    /\ UNCHANGED replies
    /\ UNCHANGED auxVars

output_file == output_file_name(result.id, result.format)

\* std::fs::write, first half: create or truncate the file
WriteOpen ==
    /\ pc = "write"
    /\ \/ /\ fs' = [fs EXCEPT ![output_file] = File(<<>>)]
          /\ pc' = "writing"
          /\ UNCHANGED outcome
       \/ /\ pc' = "done"
          /\ outcome' = Failed("write")
          /\ UNCHANGED fs
    /\ UNCHANGED <<model, cpu, gpu_id, model_path, env_model_path, output,
                   table, use_cpu, cpu_num, model_id, scanned, wait_count,
                   result, dest0, calls, load_calls>>
    /\ UNCHANGED replies
    /\ UNCHANGED auxVars

\* std::fs::write, second half: write_all, one byte at a time
WriteData ==
    /\ pc = "writing"
    /\ LET n == Len(fs[output_file].data)
       IN  \/ /\ n < Len(result.data)
              /\ fs' = [fs EXCEPT ![output_file] =
                                   File(SubSeq(result.data, 1, n + 1))]
              /\ UNCHANGED <<pc, outcome>>
           \/ /\ n < Len(result.data)
              /\ pc' = "done"
              /\ outcome' = Failed("write")
              /\ UNCHANGED fs
           \/ /\ n = Len(result.data)
              /\ pc' = "rename"
              /\ UNCHANGED <<fs, outcome>>
    /\ UNCHANGED <<model, cpu, gpu_id, model_path, env_model_path, output,
                   table, use_cpu, cpu_num, model_id, scanned, wait_count,
                   result, dest0, calls, load_calls>>
    /\ UNCHANGED replies
    /\ UNCHANGED auxVars

\* rename(2): atomic; renaming a file onto itself does nothing
rename(files, from, to) ==
    IF from = to THEN files
    ELSE [files EXCEPT ![to] = files[from], ![from] = Absent]

Rename ==
    /\ pc = "rename"
    /\ \/ /\ fs' = rename(fs, output_file, output)
          /\ pc' = "stop"
          /\ UNCHANGED outcome
       \/ /\ pc' = "done"
          /\ outcome' = Failed("rename")
          /\ UNCHANGED fs
    /\ UNCHANGED <<model, cpu, gpu_id, model_path, env_model_path, output,
                   table, use_cpu, cpu_num, model_id, scanned, wait_count,
                   result, dest0, calls, load_calls>>
    /\ UNCHANGED replies
    /\ UNCHANGED auxVars

\* format!("{:.2}", tick) of a tick given in tenths
format_tick(t) == digits(t \div 10) \o <<".">> \o digits(t % 10) \o <<"0">>

StopSuccess ==
    /\ pc = "stop"
    /\ \/ /\ Called("stop", <<>>, 0)
          /\ pc' = "done"
          /\ outcome' = Returned(TRUE, "", format_tick(result.tick))
       \/ Raised("stop", <<>>)
    /\ UNCHANGED <<model, cpu, gpu_id, model_path, env_model_path, output,
                   table, use_cpu, cpu_num, model_id, scanned, wait_count,
                   result, fs, dest0, load_calls>>
    /\ UNCHANGED replies
    /\ UNCHANGED auxVars

Timeout ==
    /\ pc = "poll"
    /\ ~(wait_count < max_wait)
    /\ \/ /\ Called("stop", <<>>, 0)
          /\ pc' = "done"
          /\ outcome' = Returned(FALSE, "Processing timeout", <<>>)
       \/ Raised("stop", <<>>)
    /\ UNCHANGED <<model, cpu, gpu_id, model_path, env_model_path, output,
                   table, use_cpu, cpu_num, model_id, scanned, wait_count,
                   result, fs, dest0, load_calls>>
    /\ UNCHANGED replies
    /\ UNCHANGED auxVars

----------------------------------------------------------------------------

Next ==
    \/ Import
    \/ SetModelPath
    \/ CallInit
    \/ CallGetCpuCoreNum
    \/ CallInitSet
    \/ ExactLookup
    \/ FuzzyScan
    \/ Resolve
    \/ CheckInput
    \/ ReadInput
    \/ CallAdd
    \/ CallGetLastError
    \/ PollNone
    \/ PollNullPayload
    \/ PollReady
    \/ PollFail
    \/ WriteOpen
    \/ WriteData
    \/ Rename
    \/ StopSuccess
    \/ Timeout

Spec == Init /\ [][Next]_vars

SpecResolve == InitResolve /\ [][Next]_vars

SpecFiles == InitFiles /\ [][Next]_vars

----------------------------------------------------------------------------
(* The normalization of the model string, on its own. *)

\* process_image is not running
ProcIdle ==
    /\ pc = "idle"
    /\ model = <<>>
    /\ cpu = FALSE
    /\ gpu_id = 0
    /\ model_path = NoPath
    /\ env_model_path = NoPath
    /\ output = <<>>
    /\ use_cpu = FALSE
    /\ cpu_num = 0
    /\ model_id = None
    /\ scanned = FALSE
    /\ wait_count = 0
    /\ result = NoResult
    /\ fs = [p \in Paths |-> Absent]
    /\ dest0 = Absent
    /\ calls = <<>>
    /\ load_calls = 0
    /\ replies = {}
    /\ outcome = NoOutcome

\* an upper-case letter, a lower-case letter, a digit, space, hyphen, underscore
NormAlphabet == {"A", "b", "7", " ", "-", "_"}

RECURSIVE StringsUpTo(_)
StringsUpTo(n) ==
    IF n = 0 THEN { <<>> }
    ELSE LET shorter == StringsUpTo(n - 1)
         IN  shorter \cup { Append(x, c) : x \in shorter, c \in NormAlphabet }

InitNorm ==
    /\ ProcIdle
    /\ table = <<>>
    /\ lpc = "idle"
    /\ li = 0
    /\ categories = <<>>
    /\ lcall = 0
    /\ lprev = NoOutcome
    /\ listing = NoOutcome
    /\ npc = 0
    /\ nx \in StringsUpTo(MaxNormLen)
    /\ ny = nx

\* model.to_lowercase().replace("-", "_").replace(" ", "_"), applied to the
\* string obtained so far
ApplyNormalize ==
    /\ npc < 2
    /\ npc' = npc + 1
    /\ ny' = normalize(ny)
    /\ UNCHANGED <<nx, lpc, li, categories, lcall, lprev, listing, table>>
    /\ UNCHANGED procVars

NextNorm == ApplyNormalize

SpecNorm == InitNorm /\ [][NextNorm]_vars


----------------------------------------------------------------------------
(* py_list_models *)

N_REALESRGAN_X == MODEL_ \o <<"R","E","A","L","E","S","R","G","A","N","_","X">>

N_WAIFU2X == MODEL_ \o <<"W","A","I","F","U","2","X">>

N_WAIFU2X_A_WAIFU2X ==
    MODEL_ \o <<"W","A","I","F","U","2","X","_","A","_","W","A","I","F","U","2","X">>

N_realcugan_z == MODEL_ \o <<"r","e","a","l","c","u","g","a","n","_","z">>

\* attributes the engine module may have, in the order dir() lists them
\* (sorted by name: upper-case letters before "_" before lower-case letters)
ListPool ==
    << Sym(N_A_MODEL_B, "int", 4), Sym(N_REALESRGAN_X, "int", 7),
       Sym(N_REALSR_X, "int", 1), Sym(N_WAIFU2X, "int", 8),
       Sym(N_WAIFU2X_A, "int", 2), Sym(N_WAIFU2X_AB, "str", 0),
       Sym(N_WAIFU2X_A_WAIFU2X, "int", 5), Sym(N_realcugan_z, "int", 6),
       Sym(N_add, "str", 0) >>

\* the entries of ListPool at the positions of S, in the order of ListPool
RECURSIVE SubTable(_)
SubTable(S) ==
    IF S = {} THEN <<>>
    ELSE LET last == CHOOSE i \in S : \A j \in S : j <= i
         IN  Append(SubTable(S \ {last}), ListPool[last])

\* dir() of the engine module, for list_models
ListTables == { SubTable(S) : S \in SUBSET (1..Len(ListPool)) }

\* number of calls of list_models in a run
MaxListCalls == 2

\* Ok(output)
Listed(text) == [kind |-> "ok", success |-> TRUE, msg |-> "", detail |-> text]

InitList ==
    /\ ProcIdle
    /\ table \in ListTables
    /\ AuxIdle

\* model_name.replace(&prefix.to_lowercase(), "").trim_start_matches('_')
clean_name(name, prefix) ==
    trim_start_matches(replace(name, to_lowercase(prefix), <<>>), "_")

\* for prefix in MODEL_PREFIXES { if model_name.starts_with(..) { .. break } }:
\* index of the first prefix the name starts with, 0 when there is none
first_prefix(name) ==
    LET S == { k \in DOMAIN MODEL_PREFIXES :
                  starts_with(name, to_lowercase(MODEL_PREFIXES[k])) }
    IN  IF S = {} THEN 0 ELSE CHOOSE k \in S : \A j \in S : k <= j

\* categories.entry(key).or_default().push(v)
push(cats, key, v) ==
    [k \in DOMAIN cats \cup {key} |->
        IF k \in DOMAIN cats
        THEN (IF k = key THEN Append(cats[k], v) ELSE cats[k])
        ELSE <<v>>]

\* the body of `for attr in sr.dir()?` for a MODEL_ attribute holding an i32
categorize(cats, attr_name) ==
    LET name == model_name(attr_name)
        k    == first_prefix(name)
    IN  IF k = 0 THEN cats
        ELSE LET clean == clean_name(name, MODEL_PREFIXES[k])
             IN  IF clean = <<>> THEN cats
                 ELSE push(cats, MODEL_PREFIXES[k], clean)

\* for model in models { output.push_str(&format!("  - {}\n", model)) }
RECURSIVE format_models(_)
format_models(models) ==
    IF models = <<>> THEN <<>>
    ELSE <<" ", " ", "-", " ">> \o Head(models) \o <<"\n">>
         \o format_models(Tail(models))

\* for prefix in prefixes { if let Some(models) = categories.get(prefix) {..} }
RECURSIVE format_categories(_, _)
format_categories(cats, prefixes) ==
    IF prefixes = <<>> THEN <<>>
    ELSE (IF Head(prefixes) \in DOMAIN cats
          THEN Head(prefixes) \o <<":", "\n">>
               \o format_models(cats[Head(prefixes)]) \o <<"\n">>
          ELSE <<>>)
         \o format_categories(cats, Tail(prefixes))

\* the orders in which the four prefixes can be visited
PrefixOrders ==
    { [i \in DOMAIN MODEL_PREFIXES |-> MODEL_PREFIXES[f[i]]] :
        f \in { g \in [DOMAIN MODEL_PREFIXES -> DOMAIN MODEL_PREFIXES] :
                  \A i, j \in DOMAIN MODEL_PREFIXES : i # j => g[i] # g[j] } }

\* a call of list_models begins
ListCall ==
    /\ lpc \in {"idle", "done"}
    /\ lcall < MaxListCalls
    /\ lcall' = lcall + 1
    /\ lprev' = listing
    /\ listing' = NoOutcome
    /\ categories' = <<>>
    /\ li' = 0
    /\ lpc' = "import"
    /\ UNCHANGED <<table, npc, nx, ny>>
    /\ UNCHANGED procVars

\* let sr = py.import("sr_vulkan.sr_vulkan")?
ListImport ==
    /\ lpc = "import"
    /\ \/ /\ lpc' = "scan"
          /\ UNCHANGED listing
       \/ /\ lpc' = "done"
          /\ listing' = Failed("import")
    /\ UNCHANGED <<li, categories, lcall, lprev, table, npc, nx, ny>>
    /\ UNCHANGED procVars

\* one iteration of `for attr in sr.dir()?`
ListEntry ==
    /\ lpc = "scan"
    /\ li < Len(table)
    /\ li' = li + 1
    /\ LET attr == table[li + 1]
       IN  IF ~starts_with(attr.name, MODEL_)
           THEN UNCHANGED <<lpc, categories, listing>>
           ELSE IF attr.kind # "int"
           THEN /\ lpc' = "done"
                /\ listing' = Failed("extract")
                /\ UNCHANGED categories
           ELSE /\ categories' = categorize(categories, attr.name)
                /\ UNCHANGED <<lpc, listing>>
    /\ UNCHANGED <<lcall, lprev, table, npc, nx, ny>>
    /\ UNCHANGED procVars

\* the families are written in the iteration order of the hash map
ListFormat_hash_order ==
    /\ lpc = "scan"
    /\ li = Len(table)
    /\ \E prefixes \in PrefixOrders :
          listing' = Listed(format_categories(categories, prefixes))
    /\ lpc' = "done"
    /\ UNCHANGED <<li, categories, lcall, lprev, table, npc, nx, ny>>
    /\ UNCHANGED procVars

\* the output loop over MODEL_PREFIXES and Ok(output)
ListFormat ==
    /\ lpc = "scan"
    /\ li = Len(table)
    /\ listing' = Listed(format_categories(categories, MODEL_PREFIXES))
    /\ lpc' = "done"
    /\ UNCHANGED <<li, categories, lcall, lprev, table, npc, nx, ny>>
    /\ UNCHANGED procVars

NextList ==
    \/ ListCall
    \/ ListImport
    \/ ListEntry
    \/ ListFormat

SpecList == InitList /\ [][NextList]_vars


----------------------------------------------------------------------------
(* History queries. *)

CallIdx(fn) == { i \in DOMAIN calls : calls[i].fn = fn }

Count(fn) == Cardinality(CallIdx(fn))

\* the call of fn returned a value satisfying the sign test
ReturnedNeg(fn) == \E i \in CallIdx(fn) : calls[i].ok /\ calls[i].ret < 0

ReturnedNonNeg(fn) == \E i \in CallIdx(fn) : calls[i].ok /\ calls[i].ret >= 0

AddPositive == \E i \in CallIdx("add") : calls[i].ok /\ calls[i].ret > 0

AddNonPositive == \E i \in CallIdx("add") : calls[i].ok /\ calls[i].ret <= 0

InitFailedOutcome == Returned(FALSE, "Initialization failed", <<>>)

TimeoutOutcome == Returned(FALSE, "Processing timeout", <<>>)

----------------------------------------------------------------------------
(* C1: every run of process_image that ends with an outcome (success,      *)
(* submission failure, initialization failure, timeout) has called stop    *)
(* exactly once by the time the outcome is returned.                       *)
C1_StopOnEveryTerminalPath ==
    (/\ pc = "done"
     /\ outcome.kind = "ok"
     /\ \/ outcome.success
        \/ outcome.msg = "Failed to add task: "
        \/ outcome = InitFailedOutcome
        \/ outcome = TimeoutOutcome)
    => Count("stop") = 1

(* C2: when add returned a value > 0 and every poll reported no result,    *)
(* exactly 60 load calls are made, never more in any state, then stop is   *)
(* called exactly once and, stop having returned, the outcome is           *)
(* (false, "Processing timeout").                                          *)
C2_PollBound ==
    /\ load_calls <= 60
    /\ (/\ pc = "done"
        /\ AddPositive
        /\ result = NoResult
        /\ outcome # Failed("load"))
       => /\ load_calls = 60
          /\ Count("stop") = 1
          /\ (calls[Len(calls)].ok => outcome = TimeoutOutcome)
    /\ outcome = TimeoutOutcome => load_calls = 60 /\ Count("stop") = 1

C2_Witness ==
    /\ pc = "done"
    /\ AddPositive
    /\ result = NoResult
    /\ load_calls = 60
    /\ outcome = TimeoutOutcome

(* C3: process_image_inner calls stop exactly once on every exit path,     *)
(* except after add returned a value <= 0, where it does not call stop;    *)
(* the input-file-missing exit and the exits of a failing poll, write or   *)
(* rename are among the paths that call stop once.                         *)
C3_StopOnEveryInnerExit ==
    (pc = "done" /\ model_id.some)
    => Count("stop") = (IF AddNonPositive THEN 0 ELSE 1)

(* C4: when the input file does not exist, the outcome is                  *)
(* (false, "Input file not found: <path>") and no engine primitive has     *)
(* been called in the run.                                                 *)
C4_MissingInputNoEngine ==
    (pc = "done" /\ outcome.kind = "ok" /\ ~fs[InputPath].exists)
    => /\ outcome = Returned(FALSE, "Input file not found: ", InputPath)
       /\ calls = <<>>
       /\ load_calls = 0


(* C5, as stated: every call to add is preceded by an init call that       *)
(* returned a non-negative code and by an initSet call that returned a     *)
(* non-negative code.                                                      *)
C5_AddAfterInitOk ==
    \A i \in CallIdx("add") :
        /\ \E j \in CallIdx("init") : j < i /\ calls[j].ok /\ calls[j].ret >= 0
        /\ \E k \in CallIdx("initSet") : k < i /\ calls[k].ok /\ calls[k].ret >= 0

(* C5, amended: every call to add is preceded by an init call that         *)
(* returned (with any code, a negative one only forcing CPU mode) and,     *)
(* after it, by an initSet call that returned a non-negative code.         *)
C5_AddAfterInitSetOk ==
    \A i \in CallIdx("add") :
        \E j \in CallIdx("init"), k \in CallIdx("initSet") :
            /\ j < k
            /\ k < i
            /\ calls[j].ok
            /\ calls[k].ok
            /\ calls[k].ret >= 0

C5_Witness ==
    /\ Count("add") = 1
    /\ ReturnedNeg("init")
    /\ ReturnedNonNeg("initSet")

(* C6, as stated: whenever the engine exposes a symbol named               *)
(* MODEL_<UPPERCASE(normalized input)>, whatever its value, the fuzzy scan *)
(* over the symbol table is never executed.                                *)
C6_ExactSymbolNoScan ==
    (\E i \in DOMAIN table : table[i].name = MODEL_ \o to_uppercase(normalize(model)))
    => ~scanned

\* the symbol table exposes MODEL_<UPPERCASE(normalized m)> with an i32 value
C6_ExactInt(tbl, m) ==
    \E i \in DOMAIN tbl :
        /\ tbl[i].name = MODEL_ \o to_uppercase(normalize(m))
        /\ tbl[i].kind = "int"

\* C6_ExactInt, tabulated over the symbol tables and inputs of the model
C6_ExactIntOf == [t \in Tables |-> [m \in Models |-> C6_ExactInt(t, m)]]

(* C6, amended: whenever the engine exposes a symbol named                 *)
(* MODEL_<UPPERCASE(normalized input)> whose value is an integer that fits *)
(* i32, the fuzzy scan is never executed and that value is the model id,   *)
(* even if another symbol would satisfy the substring rule.                *)
C6_ExactIntSymbolNoScan ==
    C6_ExactIntOf[table][model]
    => /\ ~scanned
       /\ pc \in {"resolve", "checkInput"}
          => \E i \in DOMAIN table :
                /\ table[i].name = MODEL_ \o to_uppercase(normalize(model))
                /\ model_id = Some(table[i].v)

C6_Witness ==
    /\ pc = "checkInput"
    /\ ~scanned
    /\ \E i, j \in DOMAIN table :
          /\ table[i].name = MODEL_ \o to_uppercase(normalize(model))
          /\ table[i].kind = "int"
          /\ model_id = Some(table[i].v)
          /\ j # i
          /\ table[j].kind = "int"
          /\ starts_with(table[j].name, MODEL_)
          /\ contains(model_name(table[j].name), model)

(* C7: a negative init code forces the CPU configuration path, whatever    *)
(* the cpu flag and gpu_id: the next engine call is getCpuCoreNum and the  *)
(* initSet call that follows it has the arguments (-1, cores).  A negative *)
(* init code alone is not a failure: the finished run's outcome is         *)
(* (false, "Initialization failed") if and only if initSet returned a      *)
(* negative code, and then add is never called.                            *)
C7_GpuFallback ==
    /\ \A i \in CallIdx("init") :
          (calls[i].ok /\ calls[i].ret < 0)
          => /\ use_cpu
             /\ i < Len(calls) => calls[i + 1].fn = "getCpuCoreNum"
             /\ (i + 1 < Len(calls) /\ calls[i + 1].ok)
                => /\ calls[i + 2].fn = "initSet"
                   /\ calls[i + 2].args = <<-1, calls[i + 1].ret>>
    /\ pc = "done" => (outcome = InitFailedOutcome <=> ReturnedNeg("initSet"))
    /\ ReturnedNeg("initSet") => pc = "done" /\ Count("add") = 0 /\ load_calls = 0

\* GPU was requested, init failed, the CPU path was configured and the job succeeded
C7_Witness ==
    /\ pc = "done"
    /\ outcome.success
    /\ ~cpu
    /\ gpu_id = 1
    /\ ReturnedNeg("init")
    /\ \E i \in CallIdx("initSet") : calls[i].args = <<-1, cpu_num>>

\* relative label of the spec: the first family prefix the name starts with
\* is stripped, with the underscores that follow it
C8_relative_label(name) ==
    IF \E k \in DOMAIN MODEL_PREFIXES : starts_with(name, to_lowercase(MODEL_PREFIXES[k]))
    THEN LET k == CHOOSE k \in DOMAIN MODEL_PREFIXES :
                     /\ starts_with(name, to_lowercase(MODEL_PREFIXES[k]))
                     /\ \A h \in 1..(k - 1) :
                           ~starts_with(name, to_lowercase(MODEL_PREFIXES[h]))
         IN  trim_start_matches(
                 SubSeq(name, Len(MODEL_PREFIXES[k]) + 1, Len(name)), "_")
    ELSE name

\* entries the scan looks at: MODEL_ symbols with an i32 value
C8_Eligible(i) == starts_with(table[i].name, MODEL_) /\ table[i].kind = "int"

C8_SpecMatch(i) ==
    LET label == C8_relative_label(to_lowercase(SubSeq(table[i].name, 7, Len(table[i].name))))
        inp   == normalize(model)
    IN  /\ C8_Eligible(i)
        /\ (inp = label \/ contains(inp, label) \/ contains(label, inp))

C8_CodeMatch(i) ==
    LET label == model_name(table[i].name)
    IN  /\ C8_Eligible(i)
        /\ (model = label \/ contains(model, label) \/ contains(label, model))

C9_NoCandidateIn(tbl, m) ==
    /\ ~C6_ExactInt(tbl, m)
    /\ ~\E i \in DOMAIN tbl :
           /\ starts_with(tbl[i].name, MODEL_)
           /\ tbl[i].kind = "int"
           /\ LET label == to_lowercase(replace(tbl[i].name, MODEL_, <<>>))
              IN  m = label \/ contains(m, label) \/ contains(label, m)

\* C9_NoCandidateIn, tabulated over the symbol tables and inputs of the model
C9_NoCandidateOf == [t \in Tables |-> [m \in Models |-> C9_NoCandidateIn(t, m)]]

C9_NoCandidate == C9_NoCandidateOf[table][model]

(* C9: when neither the exact step nor the fuzzy step finds a candidate,   *)
(* the outcome is (false, "Unknown model: <input>") with the input as the  *)
(* user typed it, not normalized, and add, load and stop are never called  *)
(* in that run; no other run has this outcome.                             *)
C9_UnknownModel ==
    /\ (pc = "done" /\ scanned /\ C9_NoCandidate)
       => outcome = Returned(FALSE, "Unknown model: ", model)
    /\ (pc = "done" /\ outcome.msg = "Unknown model: ")
       => scanned /\ C9_NoCandidate /\ outcome.detail = model
    /\ C9_NoCandidate => Count("add") = 0 /\ Count("stop") = 0 /\ load_calls = 0

\* an unknown model whose normalized form differs from what the user typed
C9_Witness ==
    /\ pc = "done"
    /\ scanned
    /\ C9_NoCandidate
    /\ normalize(model) # model
    /\ outcome = Returned(FALSE, "Unknown model: ", model)

(* C10: in every state of the write-then-rename sequence, for every choice *)
(* of destination path, the destination holds its previous content (or is  *)
(* absent as before) or the complete engine-returned bytes; only the       *)
(* temporary file may hold partial content.                                *)
C10_NoPartialDestination ==
    \/ fs[output] = dest0
    \/ result # NoResult /\ fs[output] = File(result.data)



(* C12: normalization is idempotent: for every string x over upper- and    *)
(* lower-case letters, digits, space, hyphen and underscore, normalizing   *)
(* the normalized string gives the normalized string again; the normalized *)
(* string has no upper-case letter, space or hyphen left.                  *)
C12_NormalizeIdempotent ==
    /\ npc = 2 => ny = normalize(nx)
    /\ npc >= 1 => \A i \in DOMAIN ny : ny[i] \notin {"A", " ", "-"}
    /\ npc >= 1 => Len(ny) = Len(nx)

\* a string with an upper-case letter, a space and a hyphen, normalized twice
C12_Witness ==
    /\ npc = 2
    /\ \E i, j, k \in DOMAIN nx : nx[i] = "A" /\ nx[j] = " " /\ nx[k] = "-"
    /\ ny # nx


(* C13: when add returns a value <= 0, getLastError is queried exactly     *)
(* once, the outcome is (false, "Failed to add task: " and the text it     *)
(* returned) and load is never called; when add returns a value > 0,       *)
(* getLastError is never called and polling begins.                        *)
C13_SubmissionFailure ==
    /\ Count("getLastError") <= 1
    /\ Count("getLastError") = 1 => AddNonPositive
    /\ AddNonPositive => load_calls = 0 /\ pc \in {"getLastError", "done"}
    /\ (pc = "done" /\ AddNonPositive)
       => /\ Count("getLastError") = 1
          /\ calls[Len(calls)].fn = "getLastError"
          /\ calls[Len(calls)].ok
             => outcome = Returned(FALSE, "Failed to add task: ", calls[Len(calls)].ret)
    /\ AddPositive
       => /\ Count("getLastError") = 0
          /\ load_calls = 0 => pc = "poll"

\* add returned 0 and the outcome carries the text of getLastError
C13_Witness ==
    /\ pc = "done"
    /\ \E i \in CallIdx("add") : calls[i].ok /\ calls[i].ret = 0
    /\ load_calls = 0
    /\ outcome = Returned(FALSE, "Failed to add task: ", <<"f","g">>)

(* C14: a poll that returns a tuple whose first element is null is treated *)
(* like a poll that returns no result: nothing is written, the attempt     *)
(* counts toward the cap of 60 and polling continues; any mixture of the   *)
(* two kinds of not-ready reply that totals 60 ends in the timeout         *)
(* outcome.                                                                *)
C14_NullPayloadNotReady ==
    /\ pc = "poll" => wait_count = load_calls /\ result = NoResult
    /\ (replies # {} /\ result = NoResult)
       => /\ load_calls >= 1
          /\ \A p \in Paths \ {InputPath} : fs[p] = (IF p = output THEN dest0 ELSE Absent)
    /\ (pc = "done" /\ replies # {} /\ result = NoResult /\ outcome # Failed("load"))
       => /\ load_calls = 60
          /\ calls[Len(calls)].fn = "stop"
          /\ calls[Len(calls)].ok => outcome = TimeoutOutcome

\* 60 not-ready replies of both kinds ended in the timeout outcome
C14_Witness ==
    /\ pc = "done"
    /\ replies = {"none", "null"}
    /\ load_calls = 60
    /\ outcome = TimeoutOutcome


(* C15: on the success path (a non-empty payload was received, write and   *)
(* rename succeeded) the outcome is success=true, the destination holds    *)
(* exactly the bytes the engine returned, the temporary file               *)
(* "<result_id>.<format>" no longer exists and exactly one output file     *)
(* remains.                                                                *)
C15_SuccessArtifact ==
    (pc \in {"stop", "done"} /\ result # NoResult /\ result.data # <<>>
       /\ outcome \notin {Failed("write"), Failed("rename")})
    => /\ fs[output] = File(result.data)
       /\ ~fs[output_file].exists
       /\ Cardinality({ p \in Paths \ {InputPath} : fs[p].exists }) = 1
       /\ (pc = "done" /\ calls[Len(calls)].ok) => outcome.success

(* C16: in any run each of init, initSet and add is called at most once,   *)
(* load is called only after add returned a positive value, and no engine  *)
(* primitive is called after stop.                                         *)
C16_OnlyPollRetried ==
    /\ Count("init") <= 1
    /\ Count("initSet") <= 1
    /\ Count("add") <= 1
    /\ load_calls > 0 => AddPositive
    /\ \A i \in CallIdx("stop") : i = Len(calls) /\ pc = "done"

\* a successful run that polled more than once and submitted once
C16_Witness ==
    /\ pc = "done"
    /\ outcome.success
    /\ load_calls > 1
    /\ Count("init") = 1 /\ Count("initSet") = 1 /\ Count("add") = 1
    /\ calls[Len(calls)].fn = "stop"

(* C17: setModelPath is called at most once and before init; with the      *)
(* explicit model_path when one is supplied (even if SR_MODEL_PATH is set  *)
(* too), with the value of the environment variable when only that is      *)
(* present, and not at all when neither is present.                        *)
C17_WeightsPath ==
    /\ Count("setModelPath") <= 1
    /\ \A i \in CallIdx("setModelPath") :
          /\ i = 1
          /\ \A j \in CallIdx("init") : i < j
          /\ calls[i].args = <<IF model_path.some THEN model_path.v
                                ELSE env_model_path.v>>
          /\ model_path.some \/ env_model_path.some
    /\ (pc \notin {"import", "setModelPath"} /\ outcome # Failed("import"))
       => (Count("setModelPath") = 1 <=> (model_path.some \/ env_model_path.some))

\* both sources were present and the explicit argument was the one passed
C17_Witness ==
    /\ model_path.some /\ env_model_path.some
    /\ Count("init") = 1
    /\ \E i \in CallIdx("setModelPath") : calls[i].args = <<"arg_dir">>

(* C20: process_image returns success=true only in a run where init and    *)
(* initSet were called, initSet returned a non-negative code, the model id *)
(* is the integer value of a MODEL_-prefixed engine symbol, add was called *)
(* with that id and returned a positive value, a poll returned a non-empty *)
(* payload within the first 60 polls, and the temporary write and the      *)
(* rename completed.                                                       *)
C20_SuccessOnlyAfterFullRun ==
    outcome.success
    => /\ Count("init") = 1
       /\ Count("initSet") = 1
       /\ ReturnedNonNeg("initSet")
       /\ model_id.some
       /\ \E i \in DOMAIN table :
             /\ starts_with(table[i].name, MODEL_)
             /\ table[i].kind = "int"
             /\ table[i].v = model_id.v
       /\ \E i \in CallIdx("add") :
             calls[i].ok /\ calls[i].args = <<model_id.v>> /\ calls[i].ret > 0
       /\ load_calls \in 1..60
       /\ result.data # <<>>
       /\ fs[output] = File(result.data)


\* the positions of S as an increasing sequence
RECURSIVE C11_Ascending(_)
C11_Ascending(S) ==
    IF S = {} THEN <<>>
    ELSE LET first == CHOOSE i \in S : \A j \in S : i <= j
         IN  <<first>> \o C11_Ascending(S \ {first})

\* the listing of a symbol table, family by family, for a given relative
\* label: the retained names of family k are those whose first matching
\* prefix is the k-th and whose label is not empty
C11_Members(tbl, k, Label(_, _)) ==
    C11_Ascending({ i \in DOMAIN tbl :
        /\ starts_with(tbl[i].name, MODEL_)
        /\ first_prefix(model_name(tbl[i].name)) = k
        /\ Label(model_name(tbl[i].name), MODEL_PREFIXES[k]) # <<>> })

\* the labels of family k, in enumeration order
C11_Labels(tbl, k, Label(_, _)) ==
    LET idx == C11_Members(tbl, k, Label)
    IN  [n \in 1..Len(idx) |->
            Label(model_name(tbl[idx[n]].name), MODEL_PREFIXES[k])]

RECURSIVE C11_Bullets(_)
C11_Bullets(labels) ==
    IF labels = <<>> THEN <<>>
    ELSE <<" ", " ", "-", " ">> \o Head(labels) \o <<"\n">>
         \o C11_Bullets(Tail(labels))

C11_Block(tbl, k, Label(_, _)) ==
    IF C11_Members(tbl, k, Label) = <<>> THEN <<>>
    ELSE MODEL_PREFIXES[k] \o <<":", "\n">>
         \o C11_Bullets(C11_Labels(tbl, k, Label)) \o <<"\n">>

C11_Listing(tbl, Label(_, _)) ==
    C11_Block(tbl, 1, Label) \o C11_Block(tbl, 2, Label)
    \o C11_Block(tbl, 3, Label) \o C11_Block(tbl, 4, Label)

(* C11: for a given symbol-table enumeration, list_models returns the same *)
(* output on every call; the families appear in the order REALCUGAN,       *)
(* REALESRGAN, REALSR, WAIFU2X, a family with no entries is omitted, and   *)
(* within a family the labels appear in enumeration order.                 *)
C11_ListingDeterministic ==
    (lpc = "done" /\ listing.kind = "ok")
    => /\ listing.detail = C11_Listing(table, clean_name)
       /\ lprev.kind = "ok" => lprev = listing

\* second call on a table whose enumeration order is not the family order,
\* with two labels in one family and a family without entries
C11_Witness ==
    /\ lpc = "done"
    /\ lcall = 2
    /\ listing.kind = "ok"
    /\ lprev = listing
    /\ DOMAIN categories = {MODEL_PREFIXES[1], MODEL_PREFIXES[3], MODEL_PREFIXES[4]}
    /\ Len(categories[MODEL_PREFIXES[4]]) >= 2
    /\ \E i, j \in DOMAIN table :
          /\ i < j
          /\ first_prefix(model_name(table[i].name)) = 4
          /\ first_prefix(model_name(table[j].name)) = 1

\* the symbols of the table whose value is an integer
C18_IntegersOnly(tbl) == SelectSeq(tbl, LAMBDA sym : sym.kind = "int")

(* C18: a symbol whose name begins with MODEL_ but whose value is not an   *)
(* integer is left out of the listing: its presence never turns            *)
(* list_models into an error and the other symbols are listed as they are  *)
(* without it.                                                             *)
C18_NonIntegerLeftOut ==
    (lpc = "done" /\ listing # Failed("import"))
    => /\ listing.kind = "ok"
       /\ listing.detail = C11_Listing(C18_IntegersOnly(table), clean_name)

\* the raw name with only the leading prefix removed and leading
\* underscores trimmed
C19_relative_label(name, prefix) ==
    trim_start_matches(SubSeq(name, Len(prefix) + 1, Len(name)), "_")

(* C19: in the listing, each retained raw name is assigned to the first of *)
(* the four prefixes it starts with, its relative label is the raw name    *)
(* with only that leading prefix removed and leading underscores trimmed   *)
(* (later occurrences of the prefix text are kept), and a name starting    *)
(* with none of the four prefixes appears nowhere.                         *)
C19_LeadingPrefixOnly ==
    (lpc = "done" /\ listing.kind = "ok")
    => listing.detail = C11_Listing(table, C19_relative_label)

====
